---- MODULE Spec2Model ----
(***************************************************************************)
(* Payment adapter layer of the NP Beauty backend (src/server.js): the     *)
(* five express handlers createRazorpayOrder, verifyRazorpayPayment,       *)
(* createStripeSession, createPaypalOrder and capturePaypalPayment, the    *)
(* helper getPaypalToken, and the outbound provider calls they issue.      *)
(*                                                                         *)
(* Strings that the code inspects character by character (amounts, ids,    *)
(* signatures) are sequences of one-character strings.  Numbers are kept   *)
(* in eighths of a major unit: every such value and its product by 100 is  *)
(* exactly representable as an IEEE double, so the integer arithmetic      *)
(* below computes exactly what the JavaScript computes.                    *)
(*                                                                         *)
(* A provider is what it is to the handlers: a call that is issued, stays  *)
(* pending, and resolves or rejects.  Payloads the handlers pass through   *)
(* untouched (the provider's order, session and capture objects, the       *)
(* redirect URLs, the booking metadata) are left out of the records.       *)
(***************************************************************************)
EXTENDS Integers, Sequences, FiniteSets

VARIABLES env, now, pc, req, accessToken, calls, responses, issued, alive

vars == <<env, now, pc, req, accessToken, calls, responses, issued, alive>>

\* ------------------------------------------------------------------ bounds
MaxReq == 2
MaxClock == 1

Reqs == 1..MaxReq

\* ------------------------------------------------------- JavaScript values
Undefined == [t |-> "undefined", s |-> <<>>, n |-> 0]
Null == [t |-> "null", s |-> <<>>, n |-> 0]
Str(s) == [t |-> "string", s |-> s, n |-> 0]
Num(n) == [t |-> "number", s |-> <<>>, n |-> n]

DigitChars == <<"0", "1", "2", "3", "4", "5", "6", "7", "8", "9">>

IsDigit(c) == \E i \in 1..10 : DigitChars[i] = c

DigitVal(c) == (CHOOSE i \in 1..10 : DigitChars[i] = c) - 1

AllDigits(s) == \A i \in 1..Len(s) : IsDigit(s[i])

RECURSIVE DigitsValue(_)
DigitsValue(s) ==
    IF s = <<>> THEN 0
    ELSE DigitsValue(SubSeq(s, 1, Len(s) - 1)) * 10 + DigitVal(s[Len(s)])

RECURSIVE Pow10(_)
Pow10(k) == IF k = 0 THEN 1 ELSE 10 * Pow10(k - 1)

NaN == [nan |-> TRUE, n |-> 0]
Finite(n) == [nan |-> FALSE, n |-> n]

\* StringToNumber of an unsigned decimal literal, in eighths.
UnsignedLiteral(s) ==
    LET dots == {i \in 1..Len(s) : s[i] = "."} IN
    IF Cardinality(dots) > 1 THEN NaN
    ELSE IF dots = {} THEN
        IF s # <<>> /\ AllDigits(s) THEN Finite(DigitsValue(s) * 8) ELSE NaN
    ELSE
        LET d == CHOOSE i \in dots : TRUE
            ip == SubSeq(s, 1, d - 1)
            fp == SubSeq(s, d + 1, Len(s))
        IN  IF AllDigits(ip) /\ AllDigits(fp) /\ Len(ip) + Len(fp) > 0
            THEN Finite(DigitsValue(ip) * 8 + (DigitsValue(fp) * 8) \div Pow10(Len(fp)))
            ELSE NaN

\* Number(string): the empty string is 0, a signed decimal literal its value,
\* anything else NaN.
StringToNumber(s) ==
    IF s = <<>> THEN Finite(0)
    ELSE IF s[1] = "-" THEN
        LET u == UnsignedLiteral(Tail(s)) IN
        IF u.nan THEN NaN ELSE Finite(0 - u.n)
    ELSE IF s[1] = "+" THEN UnsignedLiteral(Tail(s))
    ELSE UnsignedLiteral(s)

\* Number(v)
Number(v) ==
    CASE v.t = "undefined" -> NaN
      [] v.t = "null" -> Finite(0)
      [] v.t = "number" -> Finite(v.n)
      [] v.t = "string" -> StringToNumber(v.s)
      [] OTHER -> NaN

\* !!v
Truthy(v) ==
    CASE v.t = "undefined" -> FALSE
      [] v.t = "null" -> FALSE
      [] v.t = "number" -> v.n # 0
      [] v.t = "string" -> v.s # <<>>
      [] OTHER -> TRUE

RECURSIVE NatToString(_)
NatToString(k) ==
    IF k < 10 THEN <<DigitChars[k + 1]>>
    ELSE NatToString(k \div 10) \o <<DigitChars[(k % 10) + 1]>>

RECURSIVE StripZeros(_)
StripZeros(s) ==
    IF s # <<>> /\ s[Len(s)] = "0" THEN StripZeros(SubSeq(s, 1, Len(s) - 1)) ELSE s

\* Number.prototype.toString of a value held in eighths.
NumberToString(n) ==
    LET a == IF n < 0 THEN 0 - n ELSE n
        frac == StripZeros(NatToString((a % 8) * 125))
        body == IF a % 8 = 0 THEN NatToString(a \div 8)
                ELSE NatToString(a \div 8) \o <<".">> \o frac
    IN  IF n < 0 THEN <<"-">> \o body ELSE body

\* String(v), and the `${v}` of a template literal.
String(v) ==
    CASE v.t = "undefined" -> <<"u", "n", "d", "e", "f", "i", "n", "e", "d">>
      [] v.t = "null" -> <<"n", "u", "l", "l">>
      [] v.t = "number" -> NumberToString(v.n)
      [] v.t = "string" -> v.s
      [] OTHER -> <<"[", "o", "b", "j", "e", "c", "t", " ", "O", "b", "j", "e", "c", "t", "]">>

\* String.prototype.toLowerCase (line 176)
UpperLetters == <<"A", "B", "C", "D", "E", "F", "I", "N", "R", "O">>
LowerLetters == <<"a", "b", "c", "d", "e", "f", "i", "n", "r", "o">>

LowerChar(c) ==
    IF \E i \in 1..Len(UpperLetters) : UpperLetters[i] = c
    THEN LowerLetters[CHOOSE i \in 1..Len(UpperLetters) : UpperLetters[i] = c]
    ELSE c

toLowerCase(s) == [i \in 1..Len(s) |-> LowerChar(s[i])]

\* isNaN(v)
isNaN(v) == Number(v).nan

\* Number(amount) * 100, in halves of a minor unit (exact: 100 * n/8 = 25n/2).
Times100(n) == 25 * n

\* Math.round(x), x in halves: the nearest integer, a tie going up.
MathRound(h) == (h + 1) \div 2

\* ----------------------------------------------------------- configuration
\* process.env as read at lines 65-69: '' stands for an unset variable.
EnvConfigs ==
    { [RAZORPAY_KEY_SECRET |-> <<"k", "1">>, PAYPAL_CLIENT |-> "id", PAYPAL_SECRET |-> "sec"],
      [RAZORPAY_KEY_SECRET |-> <<"k", "1">>, PAYPAL_CLIENT |-> "", PAYPAL_SECRET |-> "sec"],
      [RAZORPAY_KEY_SECRET |-> <<>>, PAYPAL_CLIENT |-> "id", PAYPAL_SECRET |-> ""] }

\* ------------------------------------------------------------------- crypto
\* crypto.createHmac('sha256', key).update(msg).digest('hex'): a keyed digest
\* written as lower-case hexadecimal.  The digest is 8 bits wide here instead
\* of 256; it is keyed, deterministic and depends on every character.
Alphabet ==
    <<"0", "1", "2", "3", "4", "5", "6", "7", "8", "9",
      "a", "b", "c", "d", "e", "f", "A", "B", "C", "D", "E", "F",
      "|", "_", "o", "p", "k", "r", "y", "u", "n", "i", "l", "t", "j",
      "[", "]", " ", "O", ".", "-">>

Code(c) == CHOOSE i \in 1..Len(Alphabet) : Alphabet[i] = c

RECURSIVE Absorb(_, _)
Absorb(h, s) ==
    IF s = <<>> THEN h
    ELSE Absorb((h * 31 + Code(s[1]) + 7) % 256, Tail(s))

HexDigits == <<"0", "1", "2", "3", "4", "5", "6", "7", "8", "9", "a", "b", "c", "d", "e", "f">>

Hex(h) == <<HexDigits[(h \div 16) + 1], HexDigits[(h % 16) + 1]>>

Hmac(key, msg) == Hex(Absorb(Absorb(91, key), msg))

\* `${razor.razorpay_order_id}|${razor.razorpay_payment_id}` (line 139)
SignedMessage(razor) ==
    String(razor.razorpay_order_id) \o <<"|">> \o String(razor.razorpay_payment_id)

\* generated_signature (lines 138-140)
GeneratedSignature(key, razor) == Hmac(key, SignedMessage(razor))

\* A comparison that ignores letter case.
SignatureMatchesAnyCase(key, razor) ==
    /\ razor.razorpay_signature.t = "string"
    /\ toLowerCase(razor.razorpay_signature.s) = toLowerCase(GeneratedSignature(key, razor))

\* generated_signature === razor.razorpay_signature (line 142): strict
\* equality, so a signature that is not a string never matches.
SignatureMatches(key, razor) ==
    /\ razor.razorpay_signature.t = "string"
    /\ razor.razorpay_signature.s = GeneratedSignature(key, razor)

\* The presence check without its last operand.
MissingRazorPayloadNoSignature(razor) ==
    \/ razor.t # "object"
    \/ ~Truthy(razor.razorpay_payment_id)
    \/ ~Truthy(razor.razorpay_order_id)

\* !razor || !razor.razorpay_payment_id || !razor.razorpay_order_id ||
\* !razor.razorpay_signature (line 134)
MissingRazorPayload(razor) ==
    \/ razor.t # "object"
    \/ ~Truthy(razor.razorpay_payment_id)
    \/ ~Truthy(razor.razorpay_order_id)
    \/ ~Truthy(razor.razorpay_signature)

\* The amount check without its last operand.
InvalidAmountNoSign(amount) == ~Truthy(amount) \/ isNaN(amount)

\* !amount || isNaN(amount) || Number(amount) <= 0 (lines 106, 163, 204)
InvalidAmount(amount) ==
    \/ ~Truthy(amount)
    \/ isNaN(amount)
    \/ Number(amount).n <= 0

\* Math.floor in place of Math.round.
AmountPaiseFloor(amount) == Times100(Number(amount).n) \div 2

\* Math.round(Number(amount) * 100) (lines 110, 167)
AmountPaise(amount) == MathRound(Times100(Number(amount).n))

\* value: String(amount) (line 215)
PaypalValue(amount) == String(amount)

\* orderId === undefined in place of !orderId.
MissingOrderIdUndefinedOnly(orderId) == orderId.t = "undefined"

\* !orderId (line 240)
MissingOrderId(orderId) == ~Truthy(orderId)

\* The credentials check without its second operand.
CredentialsMissingClientOnly(e) == e.PAYPAL_CLIENT = ""

\* !PAYPAL_CLIENT || !PAYPAL_SECRET (line 81)
CredentialsMissing(e) == e.PAYPAL_CLIENT = "" \/ e.PAYPAL_SECRET = ""

\* `booking_${Date.now()}` (line 115)
Receipt(t) == <<"b", "o", "o", "k", "i", "n", "g", "_">> \o NatToString(t)

\* ---------------------------------------------------------- request bodies
INR == Str(<<"I", "N", "R">>)

NoRazor ==
    [t |-> "undefined", razorpay_payment_id |-> Undefined,
     razorpay_order_id |-> Undefined, razorpay_signature |-> Undefined]

Razor(paymentId, orderId, signature) ==
    [t |-> "object", razorpay_payment_id |-> paymentId,
     razorpay_order_id |-> orderId, razorpay_signature |-> signature]

NoBooking == [t |-> "undefined", isArray |-> FALSE, services |-> <<>>, name |-> ""]
NullBooking == [t |-> "null", isArray |-> FALSE, services |-> <<>>, name |-> ""]
Booking(isArray, services, name) ==
    [t |-> "object", isArray |-> isArray, services |-> services, name |-> name]

\* req.body of a request that carries none of the fields: body-parser
\* (line 15) leaves an empty object.
EmptyBody ==
    [amount |-> Undefined, currency |-> Undefined, booking |-> NoBooking,
     razor |-> NoRazor, orderId |-> Undefined]

\* 100.5, 500 and 0.125 major units; no amount, 0, -1 and a non-numeric string.
ValidAmounts == {Num(804), Num(4000), Num(1)}
InvalidAmounts == {Undefined, Num(0), Num(-8), Str(<<"a", "b", "c">>)}

WithAmount(amounts) == {[EmptyBody EXCEPT !.amount = a] : a \in amounts}

RazorpayBodies == WithAmount(InvalidAmounts \cup ValidAmounts)

PaypalBodies == WithAmount(InvalidAmounts \cup {Num(804), Num(4000)})

StripeBodies ==
    WithAmount(InvalidAmounts \cup {Num(804), Num(1)}) \cup
    {[EmptyBody EXCEPT !.amount = Num(804), !.currency = INR, !.booking = NullBooking],
     [EmptyBody EXCEPT !.amount = Num(804), !.currency = Num(40),
                       !.booking = Booking(FALSE, <<>>, "Asha")],
     [EmptyBody EXCEPT !.amount = Num(804), !.currency = INR,
                       !.booking = Booking(TRUE, <<"Facial", "Bridal">>, "")]}

OrderIds == {Undefined, Str(<<>>), Str(<<"O", "1">>)}

CaptureBodies == {[EmptyBody EXCEPT !.orderId = o] : o \in OrderIds}

UpperChar(c) ==
    IF \E i \in 1..Len(LowerLetters) : LowerLetters[i] = c
    THEN UpperLetters[CHOOSE i \in 1..Len(LowerLetters) : LowerLetters[i] = c]
    ELSE c

\* The signature with its letters in upper case, and with its last character
\* replaced by another one.
UpperCased(s) == [i \in 1..Len(s) |-> UpperChar(s[i])]
Altered(s) == [s EXCEPT ![Len(s)] = IF @ = "0" THEN "1" ELSE "0"]

PaymentId == Str(<<"p", "1">>)
RazorOrderId == Str(<<"o", "1">>)

\* What a client can send to /verify-razorpay-payment when the provider signs
\* with `key`: the provider's signature, variants of it, and payloads with a
\* field left out or empty.
Signatures(key) ==
    LET good == Hmac(key, SignedMessage(Razor(PaymentId, RazorOrderId, Undefined))) IN
    {Undefined, Str(<<>>), Str(good), Str(UpperCased(good)), Str(Altered(good))}

RazorPayloads(key) ==
    {NoRazor} \cup
    {Razor(PaymentId, RazorOrderId, g) : g \in Signatures(key)} \cup
    {Razor(Undefined, RazorOrderId, Str(<<"a", "b">>)),
     Razor(PaymentId, Str(<<>>), Str(<<"a", "b">>))}

VerifyBodies(key) == {[EmptyBody EXCEPT !.razor = z] : z \in RazorPayloads(key)}

\* ----------------------------------------------------- errors and responses
Error(message, data) == [message |-> message, data |-> data]

\* new Error('PayPal credentials missing') (line 81)
CredentialsError == Error("PayPal credentials missing", "")
\* a method called on undefined, null or a non-string (lines 176, 178)
TypeError == Error("TypeError", "")
\* a rejected provider call: an error with a message and, for axios, the
\* provider's body in err.response.data
ProviderError == Error("Request failed", "")
AxiosError == Error("Request failed with status code 401", "provider_error_body")

Response(status, kind, error, details) ==
    [status |-> status, kind |-> kind, error |-> error, details |-> details]

\* The catch blocks (lines 120-123, 150-153, 190-193, 227-230, 256-259):
\* what the handler sends, and whether the exception leaves the handler.
\* `return res.status(..).json(..)`: one response, and the handler returns.
Caught(resp) == [send |-> <<resp>>, escaped |-> FALSE]

\* A handler without its try/catch: the exception leaves it, nothing is sent.
OnErrorRethrow(ep, err) == [send |-> <<>>, escaped |-> TRUE]

OnError(ep, err) ==
    CASE ep = "createRazorpayOrder" ->
            Caught(Response(500, "error", "Razorpay order creation failed", err.message))
      [] ep = "verifyRazorpayPayment" ->
            Caught(Response(500, "failure", "verify failed", err.message))
      [] ep = "createStripeSession" ->
            Caught(Response(500, "error", "Stripe session creation failed", err.message))
      [] ep = "createPaypalOrder" ->
            Caught(Response(500, "error", "PayPal create order failed",
                            IF err.data # "" THEN err.data ELSE err.message))
      [] ep = "capturePaypalPayment" ->
            Caught(Response(500, "failure", "PayPal capture failed",
                            IF err.data # "" THEN err.data ELSE err.message))

\* ------------------------------------------------------------ outbound calls
Call(kind) ==
    [kind |-> kind, amount |-> 0, value |-> <<>>, currency |-> Undefined,
     receipt |-> <<>>, name |-> <<>>, bearer |-> 0, orderId |-> <<>>,
     outcome |-> "pending", access_token |-> 0]

\* A token kept from the first exchange and sent ever after.
BearerCached(token) == 1

\* Authorization: `Bearer ${accessToken}` (lines 220, 249)
Bearer(token) == token

\* const { ..., currency = 'INR' } = req.body (lines 105, 162, 203)
CurrencyOrDefault(currency) == IF currency.t = "undefined" THEN INR ELSE currency

\* name: `Booking: ${...}` (line 178), for a booking that is an object
RECURSIVE Join(_)
Join(names) ==
    IF Len(names) <= 1 THEN names
    ELSE <<names[1], ", ">> \o Join(Tail(names))

ProductName(booking) ==
    <<"Booking: ">> \o
    (IF booking.isArray THEN Join(booking.services)
     ELSE IF booking.name # "" THEN <<booking.name>> ELSE <<"Customer">>)

\* ---------------------------------------------------------------- the state
\* env         the credentials read at start-up (lines 65-69), never written
\* now         the last reading of Date.now(), in milliseconds
\* pc[r]       where request r's handler is: not arrived, suspended at an
\*             await, returned, or left by an exception nothing caught
\* req[r]      the endpoint and req.body of request r
\* accessToken[r]  the handler's local accessToken (lines 208, 242), 0 unset
\* calls[r]    the outbound calls request r issued, in order
\* responses[r]    the responses sent on request r's res, in order
\* issued      how many access tokens the wallet provider has issued
\* alive       the process is running
NoRequest == [ep |-> "none", body |-> EmptyBody]

Init ==
    /\ env \in EnvConfigs
    /\ now = 0
    /\ pc = [r \in Reqs |-> "idle"]
    /\ req = [r \in Reqs |-> NoRequest]
    /\ accessToken = [r \in Reqs |-> 0]
    /\ calls = [r \in Reqs |-> <<>>]
    /\ responses = [r \in Reqs |-> <<>>]
    /\ issued = 0
    /\ alive = TRUE

\* Request r arrives: requests are numbered in their order of arrival.
Arrives(r) ==
    /\ alive
    /\ pc[r] = "idle"
    /\ \A q \in 1..(r - 1) : pc[q] # "idle"

\* The handler of request r returns (or is left by an exception) with `eff`.
Finish(r, eff) ==
    /\ responses' = [responses EXCEPT ![r] = @ \o eff.send]
    /\ pc' = [pc EXCEPT ![r] = IF eff.escaped THEN "unhandled" ELSE "done"]
    /\ alive' = (alive /\ ~eff.escaped)

\* The handler of request r issues `call` and suspends at `at`.
Await(r, call, at) ==
    /\ calls' = [calls EXCEPT ![r] = Append(@, call)]
    /\ pc' = [pc EXCEPT ![r] = at]
    /\ UNCHANGED <<responses, alive>>

\* The pending call of request r (its last one) completes.
Settled(r, outcome) == [calls[r] EXCEPT ![Len(calls[r])].outcome = outcome]

\* Date.now() (line 115): a reading is never below the previous one, and two
\* readings can fall in the same millisecond.
DateNow == {t \in now..(now + 1) : t <= MaxClock}

\* lines 103-117: up to the await of razorpay.orders.create
createRazorpayOrder(r) ==
    /\ Arrives(r)
    /\ \E body \in RazorpayBodies :
        /\ req' = [req EXCEPT ![r] = [ep |-> "createRazorpayOrder", body |-> body]]
        /\ IF InvalidAmount(body.amount)
           THEN /\ Finish(r, Caught(Response(400, "error",
                        "Invalid amount. Send amount in rupees (number).", "")))
                /\ UNCHANGED <<calls, now>>
           ELSE \E t \in DateNow :
                /\ now' = t
                /\ Await(r, [Call("razorpay.orders.create") EXCEPT
                                !.amount = AmountPaise(body.amount),
                                !.currency = CurrencyOrDefault(body.currency),
                                !.receipt = Receipt(t)],
                         "awaitRazorpay")
    /\ UNCHANGED <<env, accessToken, issued>>

\* lines 112-123: razorpay.orders.create resolves or rejects
RazorpayOrderSettles(r) ==
    /\ alive
    /\ pc[r] = "awaitRazorpay"
    /\ \E ok \in BOOLEAN :
        IF ok
        THEN /\ calls' = [calls EXCEPT ![r] = Settled(r, "ok")]
             /\ Finish(r, Caught(Response(200, "order", "", "")))
        ELSE /\ calls' = [calls EXCEPT ![r] = Settled(r, "failed")]
             /\ Finish(r, OnError("createRazorpayOrder", ProviderError))
    /\ UNCHANGED <<env, now, req, accessToken, issued>>

\* lines 131-154: no await, the handler runs to its response
verifyRazorpayPayment(r) ==
    /\ Arrives(r)
    /\ \E body \in VerifyBodies(env.RAZORPAY_KEY_SECRET) :
        /\ req' = [req EXCEPT ![r] = [ep |-> "verifyRazorpayPayment", body |-> body]]
        /\ IF MissingRazorPayload(body.razor)
           THEN Finish(r, Caught(Response(400, "failure", "Missing razor payload", "")))
           ELSE IF SignatureMatches(env.RAZORPAY_KEY_SECRET, body.razor)
           THEN Finish(r, Caught(Response(200, "success", "", "")))
           ELSE Finish(r, Caught(Response(400, "failure", "signature_mismatch", "")))
    /\ UNCHANGED <<env, now, accessToken, calls, issued>>

\* lines 160-187: up to the await of stripe.checkout.sessions.create.  The
\* argument is built before the call: currency.toLowerCase() throws when
\* currency is not a string, booking.services when booking is null.
createStripeSession(r) ==
    /\ Arrives(r)
    /\ \E body \in StripeBodies :
        /\ req' = [req EXCEPT ![r] = [ep |-> "createStripeSession", body |-> body]]
        /\ LET currency == CurrencyOrDefault(body.currency)
               booking == IF body.booking.t = "undefined"
                          THEN Booking(FALSE, <<>>, "") ELSE body.booking
           IN  IF InvalidAmount(body.amount)
               THEN /\ Finish(r, Caught(Response(400, "error",
                            "Invalid amount. Send amount in rupees (number).", "")))
                    /\ UNCHANGED calls
               ELSE IF currency.t # "string" \/ booking.t # "object"
               THEN /\ Finish(r, OnError("createStripeSession", TypeError))
                    /\ UNCHANGED calls
               ELSE Await(r, [Call("stripe.checkout.sessions.create") EXCEPT
                                !.amount = AmountPaise(body.amount),
                                !.currency = Str(toLowerCase(currency.s)),
                                !.name = ProductName(booking)],
                          "awaitStripe")
    /\ UNCHANGED <<env, now, accessToken, issued>>

\* lines 171-193: stripe.checkout.sessions.create resolves or rejects
StripeSessionSettles(r) ==
    /\ alive
    /\ pc[r] = "awaitStripe"
    /\ \E ok \in BOOLEAN :
        IF ok
        THEN /\ calls' = [calls EXCEPT ![r] = Settled(r, "ok")]
             /\ Finish(r, Caught(Response(200, "session", "", "")))
        ELSE /\ calls' = [calls EXCEPT ![r] = Settled(r, "failed")]
             /\ Finish(r, OnError("createStripeSession", ProviderError))
    /\ UNCHANGED <<env, now, req, accessToken, issued>>

\* lines 80-92: getPaypalToken up to its await, called from request r
getPaypalToken(r, ep) ==
    IF CredentialsMissing(env)
    THEN /\ Finish(r, OnError(ep, CredentialsError))
         /\ UNCHANGED calls
    ELSE Await(r, Call("paypal.oauth2.token"), "awaitToken")

\* lines 201-208: up to the await of getPaypalToken()
createPaypalOrder(r) ==
    /\ Arrives(r)
    /\ \E body \in PaypalBodies :
        /\ req' = [req EXCEPT ![r] = [ep |-> "createPaypalOrder", body |-> body]]
        /\ IF InvalidAmount(body.amount)
           THEN /\ Finish(r, Caught(Response(400, "error", "Invalid amount", "")))
                /\ UNCHANGED calls
           ELSE getPaypalToken(r, "createPaypalOrder")
    /\ UNCHANGED <<env, now, accessToken, issued>>

\* lines 237-242: up to the await of getPaypalToken()
capturePaypalPayment(r) ==
    /\ Arrives(r)
    /\ \E body \in CaptureBodies :
        /\ req' = [req EXCEPT ![r] = [ep |-> "capturePaypalPayment", body |-> body]]
        /\ IF MissingOrderId(body.orderId)
           THEN /\ Finish(r, Caught(Response(400, "failure", "Missing orderId", "")))
                /\ UNCHANGED calls
           ELSE getPaypalToken(r, "capturePaypalPayment")
    /\ UNCHANGED <<env, now, accessToken, issued>>

\* lines 83-93, then 208-224 or 242-253: the token exchange of request r
\* resolves with a token the provider has just issued, and the handler goes on
\* to its order-create or capture call; or it rejects, and the handler's catch
\* block answers.
PaypalTokenSettles(r) ==
    /\ alive
    /\ pc[r] = "awaitToken"
    /\ \E ok \in BOOLEAN :
        IF ok
        THEN /\ issued' = issued + 1
             /\ accessToken' = [accessToken EXCEPT ![r] = issued + 1]
             /\ calls' = [calls EXCEPT ![r] = Append(
                    [Settled(r, "ok") EXCEPT ![Len(calls[r])].access_token = issued + 1],
                    IF req[r].ep = "createPaypalOrder"
                    THEN [Call("paypal.orders.create") EXCEPT
                            !.currency = CurrencyOrDefault(req[r].body.currency),
                            !.value = PaypalValue(req[r].body.amount),
                            !.bearer = Bearer(issued + 1)]
                    ELSE [Call("paypal.orders.capture") EXCEPT
                            !.orderId = String(req[r].body.orderId),
                            !.bearer = Bearer(issued + 1)])]
             /\ pc' = [pc EXCEPT ![r] = IF req[r].ep = "createPaypalOrder"
                                         THEN "awaitOrder" ELSE "awaitCapture"]
             /\ UNCHANGED <<responses, alive>>
        ELSE /\ calls' = [calls EXCEPT ![r] = Settled(r, "failed")]
             /\ Finish(r, OnError(req[r].ep, AxiosError))
             /\ UNCHANGED <<accessToken, issued>>
    /\ UNCHANGED <<env, now, req>>

\* lines 210-230: the order-create call resolves or rejects
PaypalOrderSettles(r) ==
    /\ alive
    /\ pc[r] = "awaitOrder"
    /\ \E ok \in BOOLEAN :
        IF ok
        THEN /\ calls' = [calls EXCEPT ![r] = Settled(r, "ok")]
             /\ Finish(r, Caught(Response(200, "orderId", "", "")))
        ELSE /\ calls' = [calls EXCEPT ![r] = Settled(r, "failed")]
             /\ Finish(r, OnError("createPaypalOrder", AxiosError))
    /\ UNCHANGED <<env, now, req, accessToken, issued>>

\* lines 244-259: the capture call resolves or rejects
PaypalCaptureSettles(r) ==
    /\ alive
    /\ pc[r] = "awaitCapture"
    /\ \E ok \in BOOLEAN :
        IF ok
        THEN /\ calls' = [calls EXCEPT ![r] = Settled(r, "ok")]
             /\ Finish(r, Caught(Response(200, "capture", "", "")))
        ELSE /\ calls' = [calls EXCEPT ![r] = Settled(r, "failed")]
             /\ Finish(r, OnError("capturePaypalPayment", AxiosError))
    /\ UNCHANGED <<env, now, req, accessToken, issued>>

Next ==
    \E r \in Reqs :
        \/ createRazorpayOrder(r)
        \/ RazorpayOrderSettles(r)
        \/ verifyRazorpayPayment(r)
        \/ createStripeSession(r)
        \/ StripeSessionSettles(r)
        \/ createPaypalOrder(r)
        \/ capturePaypalPayment(r)
        \/ PaypalTokenSettles(r)
        \/ PaypalOrderSettles(r)
        \/ PaypalCaptureSettles(r)

Spec == Init /\ [][Next]_vars

\* Every outbound call that was issued eventually resolves or rejects; no
\* request is obliged to arrive.
Fairness ==
    \A r \in Reqs :
        /\ WF_vars(RazorpayOrderSettles(r))
        /\ WF_vars(StripeSessionSettles(r))
        /\ WF_vars(PaypalTokenSettles(r))
        /\ WF_vars(PaypalOrderSettles(r))
        /\ WF_vars(PaypalCaptureSettles(r))

FairSpec == Spec /\ Fairness

\* ------------------------------------------------------------------ properties
Started(r) == pc[r] # "idle"

\* Request r has been sent exactly one response, with this status and error.
Answered(r, status, error) ==
    /\ Len(responses[r]) = 1
    /\ responses[r][1].status = status
    /\ responses[r][1].error = error

CallsOf(r, kinds) == {i \in 1..Len(calls[r]) : calls[r][i].kind \in kinds}

AmountEndpoints == {"createRazorpayOrder", "createStripeSession", "createPaypalOrder"}

\* The amount is missing, not a number, zero or negative.
RejectedAmount(a) ==
    \/ a.t = "undefined"
    \/ a.t = "string" /\ StringToNumber(a.s).nan
    \/ a.t = "number" /\ a.n <= 0

\* C1: a create-order or create-session request whose amount is missing, NaN,
\* zero or negative is answered 400 with a validation error and issues no
\* outbound call.
C1_InvalidAmountRejected ==
    \A r \in Reqs :
        (req[r].ep \in AmountEndpoints /\ RejectedAmount(req[r].body.amount)) =>
            /\ calls[r] = <<>>
            /\ Len(responses[r]) = 1
            /\ responses[r][1].status = 400
            /\ responses[r][1].kind = "error"
            /\ responses[r][1].error \in
                 {"Invalid amount", "Invalid amount. Send amount in rupees (number)."}

C1_Witness ==
    \E r, q \in Reqs :
        /\ req[r].ep = "createPaypalOrder" /\ req[r].body.amount = Num(-8)
        /\ req[q].ep = "createRazorpayOrder" /\ req[q].body.amount = Str(<<"a", "b", "c">>)
        /\ Answered(r, 400, "Invalid amount")
        /\ Answered(q, 400, "Invalid amount. Send amount in rupees (number).")
        /\ calls[r] = <<>> /\ calls[q] = <<>>

\* All three fields of the razor payload are present and non-empty strings.
AllThreeNonEmpty(z) ==
    /\ z.t = "object"
    /\ \A v \in {z.razorpay_payment_id, z.razorpay_order_id, z.razorpay_signature} :
            v.t = "string" /\ v.s # <<>>

\* The hex HMAC of order_id + "|" + payment_id under the stored secret.
ExpectedSignature(z) ==
    Hmac(env.RAZORPAY_KEY_SECRET, z.razorpay_order_id.s \o <<"|">> \o z.razorpay_payment_id.s)

\* C2: a verify request with all three fields present and non-empty is answered
\* 200 {success:true} exactly when its signature equals the hex HMAC-SHA256 of
\* order_id + "|" + payment_id under the stored secret, and 400
\* 'signature_mismatch' for any other signature; never 500.
C2_VerifyBySignature ==
    \A r \in Reqs :
        (req[r].ep = "verifyRazorpayPayment" /\ AllThreeNonEmpty(req[r].body.razor)) =>
            LET z == req[r].body.razor IN
            /\ Len(responses[r]) = 1
            /\ IF z.razorpay_signature.s = ExpectedSignature(z)
               THEN responses[r][1] = Response(200, "success", "", "")
               ELSE responses[r][1] = Response(400, "failure", "signature_mismatch", "")

C2_Witness ==
    \E r, q \in Reqs :
        /\ req[r].ep = "verifyRazorpayPayment" /\ req[q].ep = "verifyRazorpayPayment"
        /\ AllThreeNonEmpty(req[r].body.razor) /\ AllThreeNonEmpty(req[q].body.razor)
        /\ Answered(r, 200, "")
        /\ Answered(q, 400, "signature_mismatch")
        /\ req[q].body.razor.razorpay_signature.s # req[r].body.razor.razorpay_signature.s
        /\ toLowerCase(req[q].body.razor.razorpay_signature.s) =
             toLowerCase(req[r].body.razor.razorpay_signature.s)

\* The razor object or one of its three fields is absent from the body.
SomeFieldAbsent(z) ==
    \/ z.t = "undefined"
    \/ \E v \in {z.razorpay_payment_id, z.razorpay_order_id, z.razorpay_signature} :
            v.t = "undefined"

\* The razor object is absent or one of its three fields is absent or empty.
SomeFieldAbsentOrEmpty(z) ==
    \/ z.t = "undefined"
    \/ \E v \in {z.razorpay_payment_id, z.razorpay_order_id, z.razorpay_signature} :
            v.t = "undefined" \/ (v.t = "string" /\ v.s = <<>>)

\* C3 as stated: a verify request with the razor object or one of the three
\* fields missing is answered 400 'Missing razor payload', never
\* 'signature_mismatch', and a request with all three fields present is never
\* answered 'Missing razor payload'.
C3_MissingIffAbsent ==
    \A r \in Reqs :
        req[r].ep = "verifyRazorpayPayment" =>
            /\ SomeFieldAbsent(req[r].body.razor) =>
                    Answered(r, 400, "Missing razor payload")
            /\ ~SomeFieldAbsent(req[r].body.razor) =>
                    ~Answered(r, 400, "Missing razor payload")

\* C3 amended: a verify request with the razor object missing, or one of the
\* three fields missing or empty, is answered 400 'Missing razor payload' and
\* never 'signature_mismatch'; a request with all three fields present and
\* non-empty is never answered 'Missing razor payload'.
C3_MissingIffAbsentOrEmpty ==
    \A r \in Reqs :
        req[r].ep = "verifyRazorpayPayment" =>
            /\ Len(responses[r]) = 1
            /\ SomeFieldAbsentOrEmpty(req[r].body.razor) =>
                    Answered(r, 400, "Missing razor payload")
            /\ ~SomeFieldAbsentOrEmpty(req[r].body.razor) =>
                    responses[r][1].error # "Missing razor payload"

C3_Witness ==
    \E r, q \in Reqs :
        /\ req[r].ep = "verifyRazorpayPayment" /\ req[q].ep = "verifyRazorpayPayment"
        /\ req[r].body.razor.t = "object"
        /\ req[r].body.razor.razorpay_signature = Undefined
        /\ Truthy(req[r].body.razor.razorpay_payment_id)
        /\ Truthy(req[r].body.razor.razorpay_order_id)
        /\ Answered(r, 400, "Missing razor payload")
        /\ AllThreeNonEmpty(req[q].body.razor)
        /\ Answered(q, 400, "signature_mismatch")

PaypalCalls == {"paypal.oauth2.token", "paypal.orders.create", "paypal.orders.capture"}

\* C4: a capture request whose orderId is missing or empty is answered 400
\* 'Missing orderId' and issues neither the token exchange nor the capture
\* call, whatever the credentials.
C4_MissingOrderId ==
    \A r \in Reqs :
        (/\ req[r].ep = "capturePaypalPayment"
         /\ req[r].body.orderId \in {Undefined, Str(<<>>)}) =>
            /\ Answered(r, 400, "Missing orderId")
            /\ responses[r][1].kind = "failure"
            /\ calls[r] = <<>>

C4_Witness ==
    \E r, q \in Reqs :
        /\ req[r].ep = "capturePaypalPayment" /\ req[r].body.orderId = Str(<<>>)
        /\ req[q].ep = "capturePaypalPayment" /\ req[q].body.orderId = Undefined
        /\ Answered(r, 400, "Missing orderId") /\ Answered(q, 400, "Missing orderId")
        /\ env.PAYPAL_CLIENT # "" /\ env.PAYPAL_SECRET # ""

\* The request reaches the wallet gateway's token broker: a create-order with
\* an accepted amount, or a capture with a non-empty orderId.
NeedsToken(r) ==
    \/ req[r].ep = "createPaypalOrder" /\ req[r].body.amount \in ValidAmounts
    \/ req[r].ep = "capturePaypalPayment" /\ req[r].body.orderId = Str(<<"O", "1">>)

\* C5: with the PayPal client id or secret absent, every such request is
\* answered 500 carrying 'PayPal credentials missing', no request issues a
\* PayPal call, and the process keeps running and serving.
C5_CredentialsMissing ==
    (env.PAYPAL_CLIENT = "" \/ env.PAYPAL_SECRET = "") =>
        /\ alive
        /\ \A r \in Reqs :
            /\ CallsOf(r, PaypalCalls) = {}
            /\ NeedsToken(r) =>
                /\ calls[r] = <<>>
                /\ pc[r] = "done"
                /\ Len(responses[r]) = 1
                /\ responses[r][1].status = 500
                /\ responses[r][1].details = "PayPal credentials missing"

C5_Witness ==
    /\ env.PAYPAL_CLIENT # "" /\ env.PAYPAL_SECRET = ""
    /\ \E r, q \in Reqs :
        /\ r < q
        /\ req[r].ep = "createPaypalOrder" /\ NeedsToken(r)
        /\ Answered(r, 500, "PayPal create order failed")
        /\ req[q].ep = "capturePaypalPayment" /\ NeedsToken(q)
        /\ Answered(q, 500, "PayPal capture failed")

SuccessKind(ep) ==
    CASE ep = "createRazorpayOrder" -> "order"
      [] ep = "verifyRazorpayPayment" -> "success"
      [] ep = "createStripeSession" -> "session"
      [] ep = "createPaypalOrder" -> "orderId"
      [] ep = "capturePaypalPayment" -> "capture"
      [] OTHER -> "none"

\* The operation's success shape, or {error, details?} / {success:false, error, details?}.
WellShaped(ep, resp) ==
    \/ resp.status = 200 /\ resp.kind = SuccessKind(ep) /\ resp.error = ""
    \/ resp.status \in {400, 500} /\ resp.kind \in {"error", "failure"} /\ resp.error # ""

\* C6: given that every outbound call completes, every request is eventually
\* sent exactly one JSON response, of the success or the error shape; no
\* request is ever sent two, and no exception ever leaves a handler.  A request
\* that has arrived stays arrived, so "again and again every request that has
\* arrived has its one response" says that each of them eventually gets it.
C6_ExactlyOneResponse ==
    /\ []<>(\A r \in Reqs :
            Started(r) => (pc[r] = "done" /\ Len(responses[r]) = 1))
    /\ [](\A r \in Reqs :
            /\ Len(responses[r]) <= 1
            /\ pc[r] # "unhandled"
            /\ pc[r] = "done" => Len(responses[r]) = 1
            /\ \A i \in 1..Len(responses[r]) : WellShaped(req[r].ep, responses[r][i]))

C6_Witness ==
    \E r, q \in Reqs :
        /\ req[r].ep = "createPaypalOrder" /\ pc[r] = "done"
        /\ Len(calls[r]) = 2 /\ calls[r][2].outcome = "failed"
        /\ Answered(r, 500, "PayPal create order failed")
        /\ req[q].ep = "createRazorpayOrder" /\ pc[q] = "done"
        /\ Len(calls[q]) = 1 /\ calls[q][1].outcome = "failed"
        /\ Answered(q, 500, "Razorpay order creation failed")

\* C7: every PayPal order-create or capture call directly follows, in the same
\* request, that request's own token exchange, which succeeded, and carries the
\* token that exchange returned, which no other exchange returned; a request
\* whose token exchange failed issues no further call and is answered 500.
C7_FreshTokenPerRequest ==
    \A r \in Reqs :
        /\ \A i \in CallsOf(r, {"paypal.orders.create", "paypal.orders.capture"}) :
            /\ i > 1
            /\ calls[r][i - 1].kind = "paypal.oauth2.token"
            /\ calls[r][i - 1].outcome = "ok"
            /\ calls[r][i].bearer = calls[r][i - 1].access_token
            /\ \A q \in Reqs \ {r} : \A j \in 1..Len(calls[q]) :
                    calls[q][j].access_token # calls[r][i].bearer
        /\ \A i \in CallsOf(r, {"paypal.oauth2.token"}) :
            calls[r][i].outcome = "failed" =>
                /\ Len(calls[r]) = i
                /\ Len(responses[r]) = 1
                /\ responses[r][1].status = 500

C7_Witness ==
    \E r, q \in Reqs :
        /\ r # q
        /\ req[r].ep = "createPaypalOrder" /\ req[q].ep = "capturePaypalPayment"
        /\ Len(calls[r]) = 2 /\ Len(calls[q]) = 2
        /\ calls[r][2].bearer # calls[q][2].bearer
        /\ calls[r][2].outcome = "pending" /\ calls[q][2].outcome = "pending"

C9_StatusTellsFailureClass ==
    \A r \in Reqs : \A i \in 1..Len(responses[r]) :
        /\ responses[r][i].status = 400 => calls[r] = <<>>
        /\ responses[r][i].status = 500 =>
            \/ \E j \in 1..Len(calls[r]) : calls[r][j].outcome = "failed"
            \/ /\ req[r].ep \in {"createPaypalOrder", "capturePaypalPayment"}
               /\ (env.PAYPAL_CLIENT = "" \/ env.PAYPAL_SECRET = "")

\* C10: no two provider order-create calls of createRazorpayOrder carry the
\* same receipt.
C10_ReceiptsUnique ==
    \A r, q \in Reqs :
        \A i \in CallsOf(r, {"razorpay.orders.create"}) :
            \A j \in CallsOf(q, {"razorpay.orders.create"}) :
                (r # q \/ i # j) => calls[r][i].receipt # calls[q][j].receipt

====
